---- MODULE Spec2Model ----
(***************************************************************************)
(* Model of src/utils/messages.rs: resolution of message links into embeds *)
(* (from_message), the channel-visibility check (member_can_view_channel), *)
(* real-author resolution (find_real_author_id) and embed construction     *)
(* (to_embed, find_first_image).                                           *)
(*                                                                         *)
(* Every await of the code is a call to the chat platform or the proxy     *)
(* service.  Its outcome is drawn when the call is made: the value the     *)
(* platform holds, or a failure.  A call that the code does not reach has  *)
(* the outcome "none".                                                     *)
(***************************************************************************)
EXTENDS Integers, Sequences, FiniteSets, TLC

\* Largest number of link matches in one message text.
MaxMatches == 2

\* Option::None of an id (guild_id, webhook_id, parent_id): ids are non-zero.
None == 0

(***************************************************************************)
(* Result values.  st is "ok", "err" or "none" (call not made).            *)
(***************************************************************************)
Ok(v) == [st |-> "ok", val |-> v]

Err(v) == [st |-> "err", val |-> v]

NotCalled(v) == [st |-> "none", val |-> v]

IsOk(r) == r.st = "ok"

IsErr(r) == r.st = "err"

Called(r) == r.st # "none"

(***************************************************************************)
(* Decimal text of ids.  A link carries its three ids as digit strings     *)
(* (the \d+ groups of MESSAGE_PATTERN); a digit string is a sequence of    *)
(* digits here.                                                            *)
(***************************************************************************)
RECURSIVE ToDigits(_)
\* u64 Display, used by guild_id.to_string(): no leading zeros.
ToDigits(n) == IF n < 10 THEN <<n>> ELSE Append(ToDigits(n \div 10), n % 10)

RECURSIVE DigitsValue(_)
DigitsValue(ds) ==
    IF ds = <<>> THEN 0
    ELSE 10 * DigitsValue(SubSeq(ds, 1, Len(ds) - 1)) + ds[Len(ds)]

\* ChannelId::from_str / MessageId::from_str on a digit string within u64.
FromStr(ds) == Ok(DigitsValue(ds))

(***************************************************************************)
(* The platform: users, channels of guild 1, messages.                     *)
(***************************************************************************)
Users == {1, 2}

AllPermissions == {"VIEW_CHANNEL", "READ_MESSAGE_HISTORY"}

PermSets == SUBSET AllPermissions

\* REQUIRED_PERMISSIONS
RequiredPermissionsNoHistory == {"VIEW_CHANNEL"}

RequiredPermissions == {"VIEW_CHANNEL", "READ_MESSAGE_HISTORY"}

\* GuildChannel::default(), what Option<GuildChannel>::unwrap_or_default gives.
DefaultGuildChannel ==
    [id |-> 0, guild |-> TRUE, kind |-> "Text", parent_id |-> None, name |-> ""]

\* A private (direct message) channel: Channel::guild() is None for it.
PrivateChannel(c) ==
    [id |-> c, guild |-> FALSE, kind |-> "Private", parent_id |-> None, name |-> ""]

GuildChannelOf(c, k, p, n) ==
    [id |-> c, guild |-> TRUE, kind |-> k, parent_id |-> p, name |-> n]

\* The channels the platform holds, by id.
ChannelIds == 1 .. 7

ChannelAt(c) ==
    CASE c = 1 -> GuildChannelOf(1, "Text", None, "general")
      [] c = 2 -> GuildChannelOf(2, "News", None, "announcements")
      [] c = 3 -> GuildChannelOf(3, "PublicThread", 1, "thread")
      [] c = 4 -> GuildChannelOf(4, "PublicThread", None, "orphan")
      [] c = 5 -> GuildChannelOf(5, "Voice", None, "voice")
      [] c = 6 -> PrivateChannel(6)
      [] c = 7 -> GuildChannelOf(7, "PublicThread", 6, "stray")
      [] OTHER -> PrivateChannel(c)

\* An attachment's content_type is None (<<>>) or <<type, subtype>>.
Attachment(f, u, ct) == [filename |-> f, url |-> u, content_type |-> ct]

\* The message the platform holds in channel c under id m.
MessageAt(c, m) ==
    [id |-> m, channel_id |-> c,
     content |-> IF m = 1 THEN "hello" ELSE "look",
     author |-> [tag |-> IF m = 1 THEN "ann#0001" ELSE "bob#0002",
                 avatar |-> IF m = 1 THEN "" ELSE "avatar/bob"],
     timestamp |-> m,
     attachments |->
        IF m = 1 THEN <<>>
        ELSE <<Attachment("notes", "url/notes", <<>>),
               Attachment("log.txt", "url/log", <<"text", "plain">>),
               Attachment("a.png", "url/a", <<"image", "png">>),
               Attachment("b.jpg", "url/b", <<"image", "jpeg">>)>>]

(***************************************************************************)
(* find_first_image                                                        *)
(***************************************************************************)
\* a.content_type.as_ref().unwrap_or(&String::new()).starts_with("image/")
IsImage(a) == Len(a.content_type) > 0 /\ a.content_type[1] = "image"

RECURSIVE FirstFrom(_, _)
\* Iterator::find over attachments[i ..]: <<>> is None, <<url>> is Some(url).
FirstFrom(atts, i) ==
    IF i > Len(atts) THEN <<>>
    ELSE IF IsImage(atts[i]) THEN <<atts[i].url>>
    ELSE FirstFrom(atts, i + 1)

FindFirstImage(message) == FirstFrom(message.attachments, 1)

(***************************************************************************)
(* find_real_author_id                                                     *)
(***************************************************************************)
FindRealAuthorIdNominal(pkRes, message) == message.author

\* pkRes is the outcome of pluralkit::sender_from(http, message.id).
FindRealAuthorId(pkRes, message) ==
    IF IsOk(pkRes) THEN pkRes.val ELSE message.author

(***************************************************************************)
(* member_can_view_channel                                                 *)
(***************************************************************************)
\* A fetched guild is the permission table it computes: <<user, channel>> to
\* the permission set.  guild.user_permissions_in(&channel, member):
UserPermissionsIn(guild, channel, member) == guild[<<member, channel.id>>]

ChannelToCheckSelf(channel, parentRes) ==
    IF channel.kind \in {"PublicThread", "Text", "News"}
    THEN [st |-> "ok", val |-> channel]
    ELSE [st |-> "deny", val |-> channel]

\* The match on channel.kind: the channel whose permissions are read ("ok"),
\* an error ("err"), or the early return Ok(false) ("deny").  parentRes is the
\* outcome of parent_id.to_channel(ctx).
ChannelToCheck(channel, parentRes) ==
    CASE channel.kind = "PublicThread" ->
            IF channel.parent_id = None THEN [st |-> "err", val |-> channel]
            ELSE IF IsErr(parentRes) THEN [st |-> "err", val |-> channel]
            ELSE IF ~parentRes.val.guild THEN [st |-> "err", val |-> channel]
            ELSE [st |-> "ok", val |-> parentRes.val]
      [] channel.kind \in {"Text", "News"} -> [st |-> "ok", val |-> channel]
      [] OTHER -> [st |-> "deny", val |-> channel]

MemberCanViewChannelUnchecked(guildRes, member, channel, parentRes) ==
    IF IsErr(guildRes) THEN Err(FALSE) ELSE Ok(TRUE)

\* guildRes is the outcome of ctx.http().get_guild(channel.guild_id).
MemberCanViewChannel(guildRes, member, channel, parentRes) ==
    IF IsErr(guildRes) THEN Err(FALSE)
    ELSE LET channel_to_check == ChannelToCheck(channel, parentRes) IN
         CASE channel_to_check.st = "err" -> Err(FALSE)
           [] channel_to_check.st = "deny" -> Ok(FALSE)
           [] OTHER ->
                Ok(RequiredPermissions \subseteq
                     UserPermissionsIn(guildRes.val, channel_to_check.val, member))

(***************************************************************************)
(* to_embed                                                                *)
(***************************************************************************)
\* Channel::guild().unwrap_or_default()
GuildOrDefault(channel) == IF channel.guild THEN channel ELSE DefaultGuildChannel

NoEmbed ==
    [author |-> [name |-> "", icon_url |-> ""], color |-> "", timestamp |-> 0,
     footer |-> <<>>, description |-> [content |-> "", link |-> <<0, 0>>],
     fields |-> <<>>, image |-> <<>>]

\* footerRes is the outcome of message.channel(ctx).
ToEmbed(footerRes, message) ==
    IF IsErr(footerRes) THEN Err(NoEmbed)
    ELSE Ok(
      [author |->
          [name |-> message.author.tag,
           icon_url |-> IF message.author.avatar # "" THEN message.author.avatar
                        ELSE "default_avatar"],
       color |-> "BLITZ_BLUE",
       timestamp |-> message.timestamp,
       footer |-> <<"#", GuildOrDefault(footerRes.val).name>>,
       description |->
          [content |-> message.content,
           link |-> <<message.channel_id, message.id>>],
       fields |->
          [i \in 1 .. Len(message.attachments) |->
              [name |-> "Attachments",
               value |-> <<message.attachments[i].filename,
                           message.attachments[i].url>>,
               inline |-> FALSE]],
       image |-> IF message.attachments # <<>> THEN FindFirstImage(message)
                 ELSE <<>>])

(***************************************************************************)
(* from_message: the pieces of its body                                    *)
(***************************************************************************)
\* A capture of MESSAGE_PATTERN: the three \d+ groups.
Link(g, c, m) == [server_id |-> g, channel_id |-> c, message_id |-> m]

\* The links a message text is made of: one into each channel of guild 1, a
\* second message of the news channel, and two whose server text is not "1".
Links ==
    {Link(<<1>>, <<c>>, <<1>>) : c \in ChannelIds}
    \cup {Link(<<1>>, <<2>>, <<2>>), Link(<<2>>, <<1>>, <<1>>),
          Link(<<0, 1>>, <<1>>, <<1>>)}

RECURSIVE SeqsUpTo(_, _)
SeqsUpTo(S, n) ==
    IF n = 0 THEN {<<>>}
    ELSE LET shorter == SeqsUpTo(S, n - 1) IN
         shorter \cup {Append(q, x) : q \in {r \in shorter : Len(r) = n - 1}, x \in S}

\* The triggering message.  content is the sequence of captures that
\* captures_iter yields, in text order.
Messages ==
    [guild_id : {None, 1}, webhook_id : {None, 9}, author : Users,
     content : SeqsUpTo(Links, MaxMatches)]

\* let Some(guild_id) = msg.guild_id else { return Ok(Vec::new()) }
IsDirectMessageNever(message) == FALSE

IsDirectMessage(message) == message.guild_id = None

\* msg.webhook_id.is_some()
ViaWebhook(message) == message.webhook_id # None

\* target_guild_id != guild_id.to_string() is the negation of:
SameServerAlways(target_guild_id, guild_id) == TRUE

SameServer(target_guild_id, guild_id) == target_guild_id = ToDigits(guild_id)

TargetChannelOrDefault(idRes, chanRes) ==
    IF IsErr(idRes) \/ IsErr(chanRes) THEN Err(DefaultGuildChannel)
    ELSE Ok(GuildOrDefault(chanRes.val))

\* ChannelId::from_str(..)?.to_channel(ctx).await?.guild().ok_or_else(..)?
TargetChannel(idRes, chanRes) ==
    IF IsErr(idRes) \/ IsErr(chanRes) THEN Err(DefaultGuildChannel)
    ELSE IF ~chanRes.val.guild THEN Err(DefaultGuildChannel)
    ELSE Ok(chanRes.val)

\* MessageId::from_str(..)? and target_channel.message(..).await.wrap_err_with(..)?
TargetMessage(idRes, msgRes) ==
    IF IsErr(idRes) \/ IsErr(msgRes) THEN Err(msgRes.val) ELSE Ok(msgRes.val)

PushFront(list, embed) == <<embed>> \o list

\* embeds.push(embed)
Push(list, embed) == Append(list, embed)

(***************************************************************************)
(* Outcomes of the calls.  `reached` tells whether the code makes the call.*)
(***************************************************************************)
NoGuild == [p \in {} |-> {}]

\* pluralkit::sender_from: the sender on record, or a failure.
PkLookup(reached) ==
    IF reached THEN {Err(None)} \cup {Ok(u) : u \in Users} ELSE {NotCalled(None)}

\* guild_id.member(ctx, author_id)
MemberFetch(reached) ==
    IF reached THEN {Err(None), Ok(None)} ELSE {NotCalled(None)}

\* ChannelId::to_channel
ChannelFetch(reached, c) ==
    IF reached THEN {Err(PrivateChannel(c)), Ok(ChannelAt(c))}
    ELSE {NotCalled(PrivateChannel(c))}

\* The channels whose permissions a check of `channel` may read.
ReadBy(channel) ==
    CASE channel.kind = "PublicThread" ->
            {c \in {channel.id, channel.parent_id} : c # None /\ ChannelAt(c).guild}
      [] channel.kind \in {"Text", "News"} -> {channel.id}
      [] OTHER -> {}

\* get_guild: the guild as it is now, or a failure.
GuildFetch(reached, member, channel) ==
    IF reached
    THEN {Err(NoGuild)} \cup
         {Ok(g) : g \in [{member} \X ReadBy(channel) -> PermSets]}
    ELSE {NotCalled(NoGuild)}

\* parent_id.to_channel(ctx), made for a public thread with a parent id.
ParentFetch(reached, channel) ==
    IF reached /\ channel.kind = "PublicThread" /\ channel.parent_id # None
    THEN {Err(PrivateChannel(channel.parent_id)), Ok(ChannelAt(channel.parent_id))}
    ELSE {NotCalled(PrivateChannel(None))}

\* target_channel.message(ctx, target_message_id)
MessageFetch(reached, c, m) ==
    IF reached THEN {Err(MessageAt(c, m)), Ok(MessageAt(c, m))}
    ELSE {NotCalled(MessageAt(c, m))}

\* message.channel(ctx) in to_embed
FooterFetch(reached, message) ==
    IF reached
    THEN {Err(PrivateChannel(message.channel_id)), Ok(ChannelAt(message.channel_id))}
    ELSE {NotCalled(PrivateChannel(None))}

(***************************************************************************)
(* State of one invocation of from_message                                 *)
(***************************************************************************)
VARIABLES
    msg,        \* the triggering message
    pc,         \* "start", "loop" (between iterations of the for loop), "done"
    author_id,  \* the id whose Member is fetched as `author`
    begin,      \* outcomes of the calls made before the loop
    idx,        \* index of the next match the loop takes
    embeds,     \* the local Vec<CreateEmbed>
    last,       \* the latest loop iteration: its match, the outcomes of its calls
    flows,      \* how each finished iteration ended, in order
    calls,      \* every call made so far
    result      \* what from_message returned: st is "none" until it returns

vars == <<msg, pc, author_id, begin, idx, embeds, last, flows, calls, result>>

NoIteration ==
    [idx |-> 0,
     same |-> FALSE,
     channel |-> NotCalled(PrivateChannel(None)),
     target |-> NotCalled(DefaultGuildChannel),
     guild |-> NotCalled(NoGuild),
     parent |-> NotCalled(PrivateChannel(None)),
     view |-> NotCalled(FALSE),
     message |-> NotCalled(MessageAt(None, None)),
     footer |-> NotCalled(PrivateChannel(None)),
     flow |-> "none"]

Init ==
    /\ msg \in Messages
    /\ pc = "start"
    /\ author_id = None
    /\ begin = [pk |-> NotCalled(None), member |-> NotCalled(None)]
    /\ idx = 1
    /\ embeds = <<>>
    /\ last = NoIteration
    /\ flows = <<>>
    /\ calls = {}
    /\ result = NotCalled(<<>>)

\* The names of the calls among `named` (name -> outcome) that were made.
Made(named) == {n \in DOMAIN named : Called(named[n])}

\* from_message up to the loop: the direct-message return, the author id,
\* the member fetch.
Start ==
    /\ pc = "start"
    /\ \E pkRes \in PkLookup(~IsDirectMessage(msg) /\ ViaWebhook(msg)) :
       \E memberRes \in MemberFetch(~IsDirectMessage(msg)) :
          /\ begin' = [pk |-> pkRes, member |-> memberRes]
          /\ calls' = calls \cup Made(begin')
          /\ IF IsDirectMessage(msg)
             THEN /\ result' = Ok(<<>>)
                  /\ pc' = "done"
                  /\ UNCHANGED author_id
             ELSE /\ author_id' = IF ViaWebhook(msg)
                                  THEN FindRealAuthorId(pkRes, msg)
                                  ELSE msg.author
                  /\ IF IsErr(memberRes)
                     THEN result' = Err(<<>>) /\ pc' = "done"
                     ELSE UNCHANGED result /\ pc' = "loop"
    /\ UNCHANGED <<msg, idx, embeds, last, flows>>

\* How one iteration ends: "cross" and "denied" are the two `continue`s,
\* "error" a `?` that returns, "embed" the push.
Flow(same, target, view, fetched, embed) ==
    IF ~same THEN "cross"
    ELSE IF IsErr(target) THEN "error"
    ELSE IF IsErr(view) THEN "error"
    ELSE IF ~view.val THEN "denied"
    ELSE IF IsErr(fetched) THEN "error"
    ELSE IF IsErr(embed) THEN "error"
    ELSE "embed"

\* One iteration of the for loop over the matches.
ProcessMatch ==
    /\ pc = "loop"
    /\ idx <= Len(msg.content)
    /\ LET link == msg.content[idx]
           same == SameServer(link.server_id, msg.guild_id)
           channel_id == FromStr(link.channel_id)
           message_id == FromStr(link.message_id)
       IN
       \E chanRes \in ChannelFetch(same /\ IsOk(channel_id), channel_id.val) :
       LET target == IF same THEN TargetChannel(channel_id, chanRes)
                     ELSE NotCalled(DefaultGuildChannel)
       IN
       \E guildRes \in GuildFetch(IsOk(target), author_id, target.val) :
       \E parentRes \in ParentFetch(IsOk(guildRes), target.val) :
       LET view == IF IsOk(target)
                   THEN MemberCanViewChannel(guildRes, author_id, target.val, parentRes)
                   ELSE NotCalled(FALSE)
       IN
       \E msgRes \in MessageFetch(IsOk(view) /\ view.val /\ IsOk(message_id),
                                  target.val.id, message_id.val) :
       LET fetched == IF IsOk(view) /\ view.val
                      THEN TargetMessage(message_id, msgRes)
                      ELSE NotCalled(msgRes.val)
       IN
       \E footerRes \in FooterFetch(IsOk(fetched), fetched.val) :
       LET embed == IF IsOk(fetched) THEN ToEmbed(footerRes, fetched.val)
                    ELSE NotCalled(NoEmbed)
           flow == Flow(same, target, view, fetched, embed)
       IN
          /\ last' = [idx |-> idx, same |-> same, channel |-> chanRes,
                      target |-> target, guild |-> guildRes, parent |-> parentRes,
                      view |-> view, message |-> msgRes, footer |-> footerRes,
                      flow |-> flow]
          /\ flows' = Append(flows, flow)
          /\ calls' = calls \cup
                Made([channel |-> chanRes, guild |-> guildRes, parent |-> parentRes,
                      message |-> msgRes, footer |-> footerRes])
          /\ embeds' = IF flow = "embed" THEN Push(embeds, embed.val) ELSE embeds
          /\ IF flow = "error"
             THEN result' = Err(<<>>) /\ pc' = "done" /\ UNCHANGED idx
             ELSE UNCHANGED result /\ pc' = "loop" /\ idx' = idx + 1
    /\ UNCHANGED <<msg, author_id, begin>>

\* Ok(embeds) after the last match.
Return ==
    /\ pc = "loop"
    /\ idx > Len(msg.content)
    /\ result' = Ok(embeds)
    /\ pc' = "done"
    /\ UNCHANGED <<msg, author_id, begin, idx, embeds, last, flows, calls>>

Next == Start \/ ProcessMatch \/ Return

Spec == Init /\ [][Next]_vars

(***************************************************************************)
(* Properties                                                              *)
(***************************************************************************)
\* What the formulas read of a link and of the platform, stated apart from
\* the operators of the code above.
LinkServer(i) == DigitsValue(msg.content[i].server_id)

LinkTarget(i) ==
    <<DigitsValue(msg.content[i].channel_id), DigitsValue(msg.content[i].message_id)>>

BothCapabilities == {"VIEW_CHANNEL", "READ_MESSAGE_HISTORY"}

Ran == last.idx >= 1

\* The channel fetch of the latest iteration gave a channel of the server.
GotServerChannel == IsOk(last.channel) /\ last.channel.val.guild

\* The latest iteration's parent fetch gave a channel of the server.
GotParent == IsOk(last.parent) /\ last.parent.val.guild

\* The permissions the fetched guild gives the gating member in channel c.
Granted(c) == last.guild.val[<<author_id, c>>]

RECURSIVE Positions(_, _, _)
\* The positions i .. Len(fl) of fl whose entry is in `tags`, ascending.
Positions(fl, tags, i) ==
    IF i > Len(fl) THEN <<>>
    ELSE IF fl[i] \in tags THEN <<i>> \o Positions(fl, tags, i + 1)
    ELSE Positions(fl, tags, i + 1)

EmbedCount == Len(Positions(flows, {"embed"}, 1))

\* C1: every embed of the list was built from a match whose link carries the
\* current server's id and whose target message is the linked one, and an
\* embed is pushed only after the visibility check passed for the resolved
\* author: the fetched guild grants that member both capabilities in the
\* channel checked (the target, or its parent for a thread).
C1_OnlyVisibleSameServer ==
    /\ Len(embeds) = EmbedCount
    /\ IsOk(result) => result.val = embeds
    /\ \A k \in 1 .. Len(embeds) :
          LET i == Positions(flows, {"embed"}, 1)[k] IN
          /\ LinkServer(i) = msg.guild_id
          /\ embeds[k].description.link = LinkTarget(i)
    /\ (Ran /\ last.flow = "embed") =>
          /\ GotServerChannel
          /\ IsOk(last.guild)
          /\ last.view = Ok(TRUE)
          /\ LET ch == last.channel.val IN
             /\ ch.kind \in {"Text", "News", "PublicThread"}
             /\ ch.kind = "PublicThread" => GotParent
             /\ BothCapabilities \subseteq
                   Granted(IF ch.kind = "PublicThread" THEN last.parent.val.id
                           ELSE ch.id)

C1_Witness ==
    /\ IsOk(result)
    /\ Len(result.val) = 1
    /\ Len(msg.content) = 2
    /\ flows = <<"embed", "cross">>

\* The latest iteration hit a hard failure: its channel fetch was made and
\* gave no channel of the server, its visibility check returned an error, or
\* its message fetch failed.
HardFailure ==
    /\ Ran
    /\ \/ Called(last.channel) /\ ~GotServerChannel
       \/ IsErr(last.view)
       \/ IsErr(last.message)

\* C2: a hard failure in any match makes the whole call return an error that
\* carries none of the embeds built so far, and the failing match is the last
\* one processed.
C2_HardFailureAborts ==
    HardFailure =>
        /\ pc = "done"
        /\ IsErr(result)
        /\ result.val = <<>>
        /\ idx = last.idx
        /\ Len(flows) = last.idx
        /\ flows[last.idx] = "error"

C2_Witness ==
    /\ HardFailure
    /\ IsErr(last.message)
    /\ embeds # <<>>
    /\ Called(last.guild)
    /\ IsErr(result)

\* The latest iteration's check read the permissions of a resolved channel
\* and found the gating member short of a required capability.
DeniedByPermissions ==
    /\ Ran
    /\ GotServerChannel
    /\ IsOk(last.guild)
    /\ LET ch == last.channel.val IN
       \/ /\ ch.kind \in {"Text", "News"}
          /\ ~(BothCapabilities \subseteq Granted(ch.id))
       \/ /\ ch.kind = "PublicThread"
          /\ GotParent
          /\ ~(BothCapabilities \subseteq Granted(last.parent.val.id))

\* C3: a same-server link whose checked channel denies the resolved author
\* "view channel" or "read message history" adds no embed, causes no message
\* fetch, raises no error, and the loop goes on to the next match: the call
\* can only have ended there by returning Ok after the last match.
C3_DeniedIsSkipped ==
    DeniedByPermissions =>
        /\ last.flow = "denied"
        /\ last.view = Ok(FALSE)
        /\ ~Called(last.message)
        /\ ~Called(last.footer)
        /\ Len(embeds) = EmbedCount
        /\ ~IsErr(result)
        /\ idx = last.idx + 1
        /\ pc = "loop" \/ (IsOk(result) /\ last.idx = Len(msg.content))

C3_Witness ==
    /\ DeniedByPermissions
    /\ Granted(last.channel.val.id) = {"VIEW_CHANNEL"}
    /\ flows = <<"denied">>
    /\ Len(msg.content) = 2
    /\ pc = "loop"

\* C4: a link whose server id differs from the current server's id is
\* ignored: no embed, no error, no call at all in its iteration, and the loop
\* goes on to the next match.
C4_CrossServerIgnored ==
    (Ran /\ LinkServer(last.idx) # msg.guild_id) =>
        /\ last.flow = "cross"
        /\ Made([channel |-> last.channel, guild |-> last.guild,
                 parent |-> last.parent, message |-> last.message,
                 footer |-> last.footer]) = {}
        /\ Len(embeds) = EmbedCount
        /\ ~IsErr(result)
        /\ idx = last.idx + 1
        /\ pc = "loop" \/ (IsOk(result) /\ last.idx = Len(msg.content))

C4_Witness ==
    /\ Ran
    /\ LinkServer(last.idx) # msg.guild_id
    /\ Len(msg.content) = 1
    /\ calls = {"member"}
    /\ result = Ok(<<>>)

\* C5: for a direct message the call returns Ok with an empty list and makes
\* no call at all, whatever the text and the webhook marker.
C5_DirectMessage ==
    msg.guild_id = None =>
        /\ calls = {}
        /\ pc # "loop"
        /\ pc = "done" => result = Ok(<<>>)

C5_Witness ==
    /\ msg.guild_id = None
    /\ msg.webhook_id # None
    /\ Len(msg.content) = 2
    /\ LinkServer(1) = 1
    /\ pc = "done"

\* C6: the embeds are, in match order, one per match that was neither
\* skipped as cross-server nor skipped as permission-denied.
C6_MatchOrder ==
    ~IsErr(result) =>
        LET resolved == Positions(flows, {"embed", "error"}, 1) IN
        /\ Len(embeds) = Len(resolved)
        /\ \A k \in 1 .. Len(embeds) :
              embeds[k].description.link = LinkTarget(resolved[k])
        /\ IsOk(result) =>
              /\ result.val = embeds
              /\ msg.guild_id # None => Len(flows) = Len(msg.content)

C6_Witness ==
    /\ IsOk(result)
    /\ Len(result.val) = 2
    /\ result.val[1] # result.val[2]
    /\ flows = <<"embed", "embed">>

\* C7: for a public thread the check answers with the member's permissions
\* in the thread's parent channel, both capabilities required; with the
\* parent id absent, or the parent fetch giving no channel of the server, it
\* returns an error.
C7_ThreadUsesParent ==
    (Ran /\ GotServerChannel /\ last.channel.val.kind = "PublicThread") =>
        LET thread == last.channel.val IN
        /\ (IsOk(last.guild) /\ thread.parent_id # None /\ GotParent) =>
              /\ last.parent.val.id = thread.parent_id
              /\ last.view = Ok(BothCapabilities \subseteq Granted(thread.parent_id))
        /\ thread.parent_id = None => IsErr(last.view)
        /\ (Called(last.parent) /\ ~GotParent) => IsErr(last.view)

C7_Witness ==
    /\ Ran
    /\ GotServerChannel
    /\ last.channel.val.kind = "PublicThread"
    /\ IsOk(last.guild)
    /\ GotParent
    /\ Granted(last.channel.val.id) = BothCapabilities
    /\ Granted(last.parent.val.id) = {"VIEW_CHANNEL"}
    /\ last.view = Ok(FALSE)

\* C8: for a channel that is neither text, news nor public thread the check
\* returns false and never an error, whatever its guild fetch gave.
C8_OtherKindsDenied ==
    (Ran /\ GotServerChannel
         /\ last.channel.val.kind \notin {"Text", "News", "PublicThread"}) =>
        last.view = Ok(FALSE)

\* C9: a failed channel lookup for the footer does not fail the embed: the
\* embed is pushed with the default channel name and the call does not abort.
C9_FooterFailureDegrades ==
    (Ran /\ IsErr(last.footer)) =>
        /\ last.flow = "embed"
        /\ ~IsErr(result)
        /\ embeds # <<>>
        /\ embeds[Len(embeds)].footer = <<"#", "">>

\* C10: the gating member is the nominal author when the message has no
\* webhook marker (and then no proxy lookup is made), the sender the proxy
\* service returns when the lookup succeeds, and the nominal author when the
\* lookup fails; every check reads that member's permissions; and the call
\* returns an error only for a failed member fetch or a failed match.
C10_GatingMember ==
    (pc # "start" /\ msg.guild_id # None) =>
        /\ Called(begin.pk) <=> msg.webhook_id # None
        /\ author_id = IF msg.webhook_id = None THEN msg.author
                       ELSE IF IsOk(begin.pk) THEN begin.pk.val
                       ELSE msg.author
        /\ IsOk(last.guild) => DOMAIN last.guild.val \subseteq {author_id} \X ChannelIds
        /\ IsErr(result) => IsErr(begin.member) \/ (Ran /\ last.flow = "error")
        /\ (IsErr(begin.pk) /\ IsOk(begin.member)) => (Ran \/ ~IsErr(result))

C10_Witness ==
    /\ msg.webhook_id # None
    /\ IsErr(begin.pk)
    /\ author_id = msg.author
    /\ IsOk(result)
    /\ Len(result.val) = 1

====
